---- MODULE Spec2Model ----
(***************************************************************************)
(* A model of the telegram_tagger bot: the roster store (src/db.rs), the   *)
(* three update handlers and the /all command (src/main.rs), and the       *)
(* MarkdownV2 escaping and mention composition.                            *)
(*                                                                         *)
(* Text is a sequence of one-character strings, so that escaping, trimming *)
(* and joining are computed character by character as the code does.       *)
(***************************************************************************)
EXTENDS Integers, Sequences, FiniteSets, TLC

\* ------------------------------------------------------------------ bounds

\* Handler tasks the dispatcher may have in flight at once.
NTasks == 2
\* Updates delivered in one behaviour.
MaxEvents == 2
\* Longest new_chat_members list of a message.
MaxNew == 1
\* Longest administrator list the remote service returns.
MaxAdmins == 2
\* Longest text given to the pure text functions.
MaxLen == 2
\* Longest roster snapshot given to the mention composer.
MaxUsers == 2

Tasks == 1..NTasks

\* ------------------------------------------------------------------ text

BSlash == "\\"
NL == "\n"

\* The grave accent, which SANY does not accept inside a string literal.
Backtick == "grave"

\* main.rs:287-289
special_chars ==
    <<"_", "*", "[", "]", "(", ")", "~", Backtick, ">", "#", "+", "-", "=", "|",
      "{", "}", ".", "!">>

Contains(seq, c) == \E i \in 1..Len(seq) : seq[i] = c

\* main.rs:292-297, one iteration of the loop: what is pushed for c.
escape_char(c) ==
    IF Contains(special_chars, c) THEN <<BSlash, c>> ELSE <<c>>

RECURSIVE escape_markdown_v2(_)
\* main.rs:286-300
escape_markdown_v2(text) ==
    IF text = <<>> THEN <<>>
    ELSE escape_char(Head(text)) \o escape_markdown_v2(Tail(text))

\* str::trim as used at main.rs:268 and 271: White_Space characters are
\* removed at both ends.  The model's texts hold the space and the line feed.
IsWhitespace(c) == c \in {" ", NL}

RECURSIVE trim_start(_)
trim_start(text) ==
    IF text # <<>> /\ IsWhitespace(Head(text)) THEN trim_start(Tail(text))
    ELSE text

RECURSIVE trim_end(_)
trim_end(text) ==
    IF text # <<>> /\ IsWhitespace(text[Len(text)])
    THEN trim_end(SubSeq(text, 1, Len(text) - 1))
    ELSE text

trim(text) == trim_end(trim_start(text))

\* Display of an i64 (the {} of format! at main.rs:261).
DigitChar(d) == <<"0", "1", "2", "3", "4", "5", "6", "7", "8", "9">>[d + 1]

RECURSIVE nat_to_string(_)
nat_to_string(n) ==
    IF n < 10 THEN <<DigitChar(n)>>
    ELSE nat_to_string(n \div 10) \o <<DigitChar(n % 10)>>

i64_to_string(n) ==
    IF n < 0 THEN <<"-">> \o nat_to_string(0 - n) ELSE nat_to_string(n)

LinkOpen == <<"]", "(", "t", "g", ":", "/", "/", "u", "s", "e", "r", "?", "i", "d", "=">>
Spoiler == <<"|", "|">>

\* main.rs:259-262, the closure mapped over the roster.
mention(u) ==
    <<"[">> \o escape_markdown_v2(u.first_name) \o LinkOpen
        \o i64_to_string(u.user_id) \o <<")">>

RECURSIVE join(_, _)
\* main.rs:265, Vec<String>::join
join(strs, sep) ==
    IF strs = <<>> THEN <<>>
    ELSE IF Len(strs) = 1 THEN strs[1]
    ELSE strs[1] \o sep \o join(Tail(strs), sep)

\* main.rs:257-265
mentions_str(users) == join([i \in 1..Len(users) |-> mention(users[i])], <<" ">>)

\* main.rs:268-273
build_reply(users, text) ==
    IF trim(text) = <<>> THEN Spoiler \o mentions_str(users) \o Spoiler
    ELSE escape_markdown_v2(trim(text)) \o <<NL>> \o Spoiler
             \o mentions_str(users) \o Spoiler

\* ------------------------------------------------------------------ data

\* Conversations by chat id, and the kind of each (teloxide's ChatKind).
ChatIds == {1, 2, 3, 4}
ChatKind(c) == <<"group", "supergroup", "private", "channel">>[c]

\* Chat::is_group and Chat::is_supergroup, as read at main.rs:96, 121, 170.
is_group(c) == ChatKind(c) = "group"
is_supergroup(c) == ChatKind(c) = "supergroup"

\* main.rs:96, 121, 170: !msg.chat.is_group() && !msg.chat.is_supergroup()
not_group_chat(c) == ~is_group(c) /\ ~is_supergroup(c)

\* teloxide's User, the fields the code reads: id, is_bot, first_name.
\* Participant 1 is a person seen under two display names, 2 another person,
\* 3 an automated account.
Person == [id |-> 1, is_bot |-> FALSE, first_name |-> <<"a">>]
Renamed == [id |-> 1, is_bot |-> FALSE, first_name |-> <<"_", "b">>]
Other == [id |-> 2, is_bot |-> FALSE, first_name |-> <<"c">>]
Robot == [id |-> 3, is_bot |-> TRUE, first_name |-> <<"a">>]
UserObjs == {Person, Renamed, Other, Robot}
BotIds == {u.id : u \in {x \in UserObjs : x.is_bot}}

\* Option<T> is a sequence of length 0 (None) or 1 (Some).
None == <<>>
Some(x) == <<x>>
Option(S) == {None} \cup {Some(x) : x \in S}

\* teloxide's ChatMemberKind.
ChatMemberKinds ==
    {"Owner", "Administrator", "Member", "Restricted", "Left", "Banned"}

\* A mutant of the membership test: restricted members count as departed.
is_member_no_restricted(kind) == kind \in {"Member", "Administrator", "Owner"}

\* main.rs:62-68
is_member(kind) == kind \in {"Member", "Administrator", "Owner", "Restricted"}

\* A mutant of the gate: every present member counts as privileged.
is_admin_any_member(kind) == kind \in {"Administrator", "Owner", "Member"}

\* main.rs:191-194
is_admin(kind) == kind \in {"Administrator", "Owner"}

\* Sequences over S of length at most n.
SeqUpTo(S, n) == UNION {[1..k -> S] : k \in 0..n}

\* ------------------------------------------------------------------ store

\* A row of the users table, db.rs:15-20.
Row(c, u, n) == [chat_id |-> c, user_id |-> u, first_name |-> n]

HasKey(rows, c, u) == \E r \in rows : r.chat_id = c /\ r.user_id = u

\* A mutant of the upsert: ON CONFLICT DO NOTHING, the stored name is kept.
upsert_user_keep_name(rows, c, u, n) ==
    IF HasKey(rows, c, u) THEN rows ELSE rows \cup {Row(c, u, n)}

\* A mutant of the upsert: a plain insert into a table without the primary key.
upsert_user_insert_only(rows, c, u, n) == rows \cup {Row(c, u, n)}

\* db.rs:28-38: INSERT ... ON CONFLICT(chat_id, user_id) DO UPDATE SET first_name
upsert_user(rows, c, u, n) ==
    IF HasKey(rows, c, u)
    THEN {IF r.chat_id = c /\ r.user_id = u THEN [r EXCEPT !.first_name = n] ELSE r :
              r \in rows}
    ELSE rows \cup {Row(c, u, n)}

\* A mutant of the delete: the chat_id condition dropped.
delete_user_any_chat(rows, c, u) == {r \in rows : r.user_id # u}

\* db.rs:55-62: DELETE FROM users WHERE chat_id = ?1 AND user_id = ?2
delete_user(rows, c, u) == {r \in rows : ~(r.chat_id = c /\ r.user_id = u)}

\* db.rs:41-52: the rows of one chat as User values.  SQL fixes no order, so the
\* result is any enumeration of them.
UsersOf(rows, c) ==
    {[user_id |-> r.user_id, first_name |-> r.first_name] : r \in {x \in rows : x.chat_id = c}}

Enumerations(S) ==
    {q \in [1..Cardinality(S) -> S] : \A i, j \in 1..Cardinality(S) : q[i] = q[j] => i = j}

get_users_for_chat(rows, c) == Enumerations(UsersOf(rows, c))

\* ------------------------------------------------------------------ state

VARIABLES
    db,       \* the users table: a set of rows
    lock,     \* the task holding the Mutex around the connection, 0 when free
    pc,       \* where each handler task stands
    ev,       \* the update each task was dispatched with
    loc,      \* each task's local variables
    out,      \* each task's calls to the Bot API, in order
    oplog,    \* lock and store operations of all tasks, in the order they ran
    nEvents,  \* updates dispatched so far
    fn_in,    \* argument of a text function applied on its own
    fn_out,   \* its result, None until it is applied
    scope     \* the updates and answers the remote service may give:
              \* "full", "core" or "live"

vars == <<db, lock, pc, ev, loc, out, oplog, nEvents, fn_in, fn_out, scope>>

NoEvent ==
    [type |-> "none", chat |-> 0, msg_id |-> 0, from |-> None, user |-> None,
     kind |-> "none", new_members |-> <<>>, left |-> None, text |-> <<>>]

\* idx, admins and users are the handlers' locals; db0 is a history value, the
\* table as it stood when the task was spawned.
NoLocals == [idx |-> 0, admins |-> <<>>, users |-> <<>>, db0 |-> {}]

\* Update::filter_chat_member (main.rs:35): ChatMemberUpdated, the fields read.
\* The service reports member changes of groups, supergroups and channels.
ChatMemberUpdates ==
    {[NoEvent EXCEPT !.type = "chat_member", !.chat = c, !.user = Some(u), !.kind = k] :
        c \in {x \in ChatIds : ChatKind(x) # "private"}, u \in UserObjs,
        k \in ChatMemberKinds}

\* left_chat_member: only its id reaches the store, its name is logged.
LeftUsers == {Person, Other, Robot}

\* Update::filter_message without a command (main.rs:44).
Messages ==
    {[NoEvent EXCEPT !.type = "message", !.chat = c, !.from = f, !.new_members = nm,
                     !.left = l] :
        c \in ChatIds, f \in Option(UserObjs), nm \in SeqUpTo(UserObjs, MaxNew),
        l \in Option(LeftUsers)}

\* Argument strings of /all.
CommandTexts == {<<>>, <<" ", "*">>}

\* Update::filter_message parsed as Command::All(text) (main.rs:39-43).
Commands ==
    {[NoEvent EXCEPT !.type = "command", !.chat = c, !.from = f, !.text = x] :
        c \in ChatIds, f \in Option(UserObjs), x \in CommandTexts}

\* db.rs:11-25 and main.rs:26-28: the table exists and the Mutex is free.
init_db == {}

InitTasks ==
    /\ db = init_db
    /\ lock = 0
    /\ pc = [t \in Tasks |-> "idle"]
    /\ ev = [t \in Tasks |-> NoEvent]
    /\ loc = [t \in Tasks |-> NoLocals]
    /\ out = [t \in Tasks |-> <<>>]
    /\ oplog = <<>>
    /\ nEvents = 0

Init == InitTasks /\ fn_in = <<>> /\ fn_out = None /\ scope = "full"

\* ------------------------------------------------------------------ steps

OpEntry(t, op, c, u, n, ok) ==
    [task |-> t, op |-> op, chat_id |-> c, user_id |-> u, first_name |-> n, ok |-> ok]

\* A mutant of the Mutex: the lock is taken without waiting for its holder.
AcquireNoWait(t) == lock' = t

\* db.lock().await: the task waits until the Mutex is free.
Acquire(t) ==
    /\ lock = 0
    /\ lock' = t

\* The dispatcher spawns a task for one update.
CanBegin(t) == pc[t] = "idle" /\ nEvents < MaxEvents

Begin(t, e) ==
    /\ nEvents' = nEvents + 1
    /\ ev' = [ev EXCEPT ![t] = [e EXCEPT !.msg_id = nEvents + 1]]
    /\ loc' = [loc EXCEPT ![t].db0 = db]
    /\ UNCHANGED <<out, oplog>>

\* The handler's future has completed (Ok or Err) and the task is dropped with
\* its locals; what it did to the store stays.
Return(t) ==
    /\ pc[t] \in {"done", "err"}
    /\ pc' = [pc EXCEPT ![t] = "idle"]
    /\ ev' = [ev EXCEPT ![t] = NoEvent]
    /\ loc' = [loc EXCEPT ![t] = NoLocals]
    /\ out' = [out EXCEPT ![t] = <<>>]
    /\ oplog' = SelectSeq(oplog, LAMBDA o : o.task # t)
    /\ UNCHANGED <<db, lock, nEvents, fn_in, fn_out, scope>>

\* main.rs:56-70, 79: chat_member_handler up to its first await.
ChatMemberStart(t, updates) ==
    /\ CanBegin(t)
    /\ \E update \in updates :
         /\ Begin(t, update)
         /\ LET user == update.user[1]
            IN pc' = [pc EXCEPT ![t] =
                    IF is_member(update.kind) /\ ~user.is_bot THEN "cm_lock_upsert"
                    ELSE IF ~is_member(update.kind) THEN "cm_lock_delete"
                    ELSE "done"]
    /\ UNCHANGED <<db, lock, fn_in, fn_out, scope>>

\* main.rs:56
chat_member_handler(t) == ChatMemberStart(t, ChatMemberUpdates)

\* main.rs:71
ChatMemberLockUpsert(t) ==
    /\ pc[t] = "cm_lock_upsert"
    /\ Acquire(t)
    /\ pc' = [pc EXCEPT ![t] = "cm_upsert"]
    /\ oplog' = Append(oplog, OpEntry(t, "lock", 0, 0, <<>>, TRUE))
    /\ UNCHANGED <<db, ev, loc, out, nEvents, fn_in, fn_out, scope>>

\* main.rs:72-78: the upsert, its result dropped, and the guard going out of scope.
ChatMemberUpsert(t) ==
    /\ pc[t] = "cm_upsert"
    /\ LET user == ev[t].user[1]
       IN \E ok \in BOOLEAN :
            /\ db' = IF ok THEN upsert_user(db, ev[t].chat, user.id, user.first_name)
                     ELSE db
            /\ oplog' = oplog \o
                 <<OpEntry(t, "upsert", ev[t].chat, user.id, user.first_name, ok),
                   OpEntry(t, "unlock", 0, 0, <<>>, TRUE)>>
    /\ lock' = 0
    /\ pc' = [pc EXCEPT ![t] = "done"]
    /\ UNCHANGED <<ev, loc, out, nEvents, fn_in, fn_out, scope>>

\* main.rs:81
ChatMemberLockDelete(t) ==
    /\ pc[t] = "cm_lock_delete"
    /\ Acquire(t)
    /\ pc' = [pc EXCEPT ![t] = "cm_delete"]
    /\ oplog' = Append(oplog, OpEntry(t, "lock", 0, 0, <<>>, TRUE))
    /\ UNCHANGED <<db, ev, loc, out, nEvents, fn_in, fn_out, scope>>

\* main.rs:82-88
ChatMemberDelete(t) ==
    /\ pc[t] = "cm_delete"
    /\ LET user == ev[t].user[1]
       IN \E ok \in BOOLEAN :
            /\ db' = IF ok THEN delete_user(db, ev[t].chat, user.id) ELSE db
            /\ oplog' = oplog \o
                 <<OpEntry(t, "delete", ev[t].chat, user.id, <<>>, ok),
                   OpEntry(t, "unlock", 0, 0, <<>>, TRUE)>>
    /\ lock' = 0
    /\ pc' = [pc EXCEPT ![t] = "done"]
    /\ UNCHANGED <<ev, loc, out, nEvents, fn_in, fn_out, scope>>

\* A mutant of track_message_user: the conversation test is missing.
TrackNeedsLockAnyChat(msg) ==
    /\ msg.from # None
    /\ ~msg.from[1].is_bot

\* main.rs:95-103: track_message_user reaches its db.lock().await.
TrackNeedsLock(msg) ==
    /\ ~not_group_chat(msg.chat)
    /\ msg.from # None
    /\ ~msg.from[1].is_bot

\* Where the handler stands once track_message_user has returned:
\* message_handler at main.rs:121-126, command_handler and the head of
\* handle_all_command at main.rs:161-190.
AfterTrack(msg) ==
    IF msg.type = "message"
    THEN IF not_group_chat(msg.chat) THEN "done" ELSE "mh_lock"
    ELSE IF not_group_chat(msg.chat) THEN "all_send_groups_only"
         ELSE IF msg.from = None THEN "done"
         ELSE "all_gate"

\* main.rs:117-118 and 158-159: both handlers start by tracking the author.
StartMessage(t, msg) ==
    /\ Begin(t, msg)
    /\ pc' = [pc EXCEPT ![t] = IF TrackNeedsLock(msg) THEN "tr_lock" ELSE AfterTrack(msg)]
    /\ UNCHANGED <<db, lock, fn_in, fn_out, scope>>

\* main.rs:117
message_handler(t) == CanBegin(t) /\ \E msg \in Messages : StartMessage(t, msg)

\* A mutant of command_handler: the author of the command is not tracked.
command_handler_untracked(t) ==
    /\ CanBegin(t)
    /\ \E msg \in Commands :
         /\ Begin(t, msg)
         /\ pc' = [pc EXCEPT ![t] = AfterTrack(msg)]
    /\ UNCHANGED <<db, lock, fn_in, fn_out, scope>>

\* main.rs:158
command_handler(t) == CanBegin(t) /\ \E msg \in Commands : StartMessage(t, msg)

\* main.rs:104
TrackLock(t) ==
    /\ pc[t] = "tr_lock"
    /\ Acquire(t)
    /\ pc' = [pc EXCEPT ![t] = "tr_upsert"]
    /\ oplog' = Append(oplog, OpEntry(t, "lock", 0, 0, <<>>, TRUE))
    /\ UNCHANGED <<db, ev, loc, out, nEvents, fn_in, fn_out, scope>>

\* A mutant of the author tracking: the guard is still alive when
\* track_message_user returns.
TrackUpsertKeepingLock(t) ==
    /\ pc[t] = "tr_upsert"
    /\ LET user == ev[t].from[1]
       IN \E ok \in BOOLEAN :
            /\ db' = IF ok THEN upsert_user(db, ev[t].chat, user.id, user.first_name)
                     ELSE db
            /\ oplog' = Append(oplog,
                  OpEntry(t, "upsert", ev[t].chat, user.id, user.first_name, ok))
    /\ pc' = [pc EXCEPT ![t] = AfterTrack(ev[t])]
    /\ UNCHANGED <<lock, ev, loc, out, nEvents, fn_in, fn_out, scope>>

\* A mutant of the author tracking: a failed upsert ends the handler with an error.
TrackUpsertAborting(t) ==
    /\ pc[t] = "tr_upsert"
    /\ LET user == ev[t].from[1]
       IN \E ok \in BOOLEAN :
            /\ db' = IF ok THEN upsert_user(db, ev[t].chat, user.id, user.first_name)
                     ELSE db
            /\ oplog' = oplog \o
                 <<OpEntry(t, "upsert", ev[t].chat, user.id, user.first_name, ok),
                   OpEntry(t, "unlock", 0, 0, <<>>, TRUE)>>
            /\ pc' = [pc EXCEPT ![t] = IF ok THEN AfterTrack(ev[t]) ELSE "err"]
    /\ lock' = 0
    /\ UNCHANGED <<ev, loc, out, nEvents, fn_in, fn_out, scope>>

\* main.rs:105-112, then the return into the calling handler.
TrackUpsert(t) ==
    /\ pc[t] = "tr_upsert"
    /\ LET user == ev[t].from[1]
       IN \E ok \in BOOLEAN :
            /\ db' = IF ok THEN upsert_user(db, ev[t].chat, user.id, user.first_name)
                     ELSE db
            /\ oplog' = oplog \o
                 <<OpEntry(t, "upsert", ev[t].chat, user.id, user.first_name, ok),
                   OpEntry(t, "unlock", 0, 0, <<>>, TRUE)>>
    /\ lock' = 0
    /\ pc' = [pc EXCEPT ![t] = AfterTrack(ev[t])]
    /\ UNCHANGED <<ev, loc, out, nEvents, fn_in, fn_out, scope>>

\* main.rs:126
MessageLock(t) ==
    /\ pc[t] = "mh_lock"
    /\ Acquire(t)
    /\ pc' = [pc EXCEPT ![t] = "mh_members"]
    /\ loc' = [loc EXCEPT ![t].idx = 1]
    /\ oplog' = Append(oplog, OpEntry(t, "lock", 0, 0, <<>>, TRUE))
    /\ UNCHANGED <<db, ev, out, nEvents, fn_in, fn_out, scope>>

\* main.rs:129-141, one iteration of the loop over new_chat_members.
MessageNewMember(t) ==
    /\ pc[t] = "mh_members"
    /\ loc[t].idx <= Len(ev[t].new_members)
    /\ LET user == ev[t].new_members[loc[t].idx]
       IN IF ~user.is_bot
          THEN \E ok \in BOOLEAN :
                 /\ db' = IF ok
                          THEN upsert_user(db, ev[t].chat, user.id, user.first_name)
                          ELSE db
                 /\ oplog' = Append(oplog,
                       OpEntry(t, "upsert", ev[t].chat, user.id, user.first_name, ok))
          ELSE UNCHANGED <<db, oplog>>
    /\ loc' = [loc EXCEPT ![t].idx = @ + 1]
    /\ UNCHANGED <<lock, pc, ev, out, nEvents, fn_in, fn_out, scope>>

RECURSIVE upsert_each(_, _, _)
\* The table after an upsert of each of users, in order.
upsert_each(rows, c, users) ==
    IF users = <<>> THEN rows
    ELSE upsert_each(upsert_user(rows, c, Head(users).id, Head(users).first_name),
                     c, Tail(users))

\* A mutant of the join/leave block: the removed participant is deleted before
\* the added participants still to be handled are upserted.
MessageLeftBeforeAdded(t) ==
    /\ pc[t] = "mh_members"
    /\ LET c == ev[t].chat
           rest == SubSeq(ev[t].new_members, loc[t].idx, Len(ev[t].new_members))
           added == SelectSeq(rest, LAMBDA u : ~u.is_bot)
           upserts == [i \in 1..Len(added) |->
                          OpEntry(t, "upsert", c, added[i].id, added[i].first_name, TRUE)]
           unlock == <<OpEntry(t, "unlock", 0, 0, <<>>, TRUE)>>
       IN IF ev[t].left # None
          THEN /\ db' = upsert_each(delete_user(db, c, ev[t].left[1].id), c, added)
               /\ oplog' = oplog
                    \o <<OpEntry(t, "delete", c, ev[t].left[1].id, <<>>, TRUE)>>
                    \o upserts \o unlock
          ELSE /\ db' = upsert_each(db, c, added)
               /\ oplog' = oplog \o upserts \o unlock
    /\ lock' = 0
    /\ pc' = [pc EXCEPT ![t] = "done"]
    /\ UNCHANGED <<ev, loc, out, nEvents, fn_in, fn_out, scope>>

\* main.rs:144-154: the removed participant, then the guard dropped on return.
MessageLeft(t) ==
    /\ pc[t] = "mh_members"
    /\ loc[t].idx > Len(ev[t].new_members)
    /\ IF ev[t].left # None
       THEN \E ok \in BOOLEAN :
              /\ db' = IF ok THEN delete_user(db, ev[t].chat, ev[t].left[1].id) ELSE db
              /\ oplog' = oplog \o
                   <<OpEntry(t, "delete", ev[t].chat, ev[t].left[1].id, <<>>, ok),
                     OpEntry(t, "unlock", 0, 0, <<>>, TRUE)>>
       ELSE /\ db' = db
            /\ oplog' = Append(oplog, OpEntry(t, "unlock", 0, 0, <<>>, TRUE))
    /\ lock' = 0
    /\ pc' = [pc EXCEPT ![t] = "done"]
    /\ UNCHANGED <<ev, loc, out, nEvents, fn_in, fn_out, scope>>

\* ------------------------------------------------------------------ /all

GroupsOnlyText == "This command only works in groups."
OnlyAdminsText == "Only admins can use this command."
NoUsersText ==
    "No users tracked yet. Users will be tracked as they send messages or join the group."

\* One call to the Bot API.  A fixed notice is `text`; the composed mention
\* message, a sequence of characters, is `body`.
ApiCall(call, c, text, body, reply_to, parse_mode, result) ==
    [call |-> call, chat_id |-> c, text |-> text, body |-> body,
     reply_to |-> reply_to, parse_mode |-> parse_mode, result |-> result]

\* bot.send_message(..).await?: the request is issued; an error ends the command.
SendMessage(t, text, body, reply_to, parse_mode) ==
    \E ok \in BOOLEAN :
        /\ out' = [out EXCEPT ![t] = Append(@,
               ApiCall("send_message", ev[t].chat, text, body, reply_to, parse_mode,
                       IF ok THEN "Ok" ELSE "Err"))]
        /\ pc' = [pc EXCEPT ![t] = IF ok THEN "done" ELSE "err"]

\* main.rs:172: no reply_parameters on this request.
groups_only_reply_to(msg) == None

\* A mutant of the replies: they reference no message.
reply_parameters_none(msg) == None

\* main.rs:204, 240, 277: ReplyParameters::new(msg.id)
reply_parameters(msg) == Some(msg.msg_id)

\* main.rs:170-175
AllSendGroupsOnly(t) ==
    /\ pc[t] = "all_send_groups_only"
    /\ SendMessage(t, GroupsOnlyText, <<>>, groups_only_reply_to(ev[t]), "none")
    /\ UNCHANGED <<db, lock, ev, loc, oplog, nEvents, fn_in, fn_out, scope>>

\* Answers of get_chat_member: a role, or an error.
GateAnswers ==
    IF scope = "full" THEN ChatMemberKinds \cup {"Err"}
    ELSE {"Administrator", "Member", "Err"}

\* Administrator lists over S: every account appears at most once.
AdminLists(S) ==
    {q \in SeqUpTo(S, MaxAdmins) : \A i, j \in 1..Len(q) : q[i].id = q[j].id => i = j}

\* The administrator lists of the one group of the concurrent specifications.
CoreAdminLists ==
    {q \in AdminLists({Person, Other, Robot}) :
        /\ q \in {<<>>, <<Person>>, <<Person, Other>>, <<Robot, Person>>}
        /\ scope = "live" => q = <<Person>>}

\* Answers of get_chat_administrators: None is an error.
AdminAnswers ==
    IF scope = "full" THEN Option(AdminLists(UserObjs)) ELSE Option(CoreAdminLists)

\* A mutant of the gate: a failed query counts as a non-privileged role.
AllGateSwallowing(t) ==
    /\ pc[t] = "all_gate"
    /\ \E member \in GateAnswers :
         /\ out' = [out EXCEPT ![t] = Append(@,
                ApiCall("get_chat_member", ev[t].chat, "", <<>>, None, "none", member))]
         /\ pc' = [pc EXCEPT ![t] =
                IF ~is_admin(member) THEN "all_send_only_admins"
                ELSE "all_fetch_admins"]
    /\ UNCHANGED <<db, lock, ev, loc, oplog, nEvents, fn_in, fn_out, scope>>

\* main.rs:190-207: the gate query and the decision taken on its answer.
AllGate(t) ==
    /\ pc[t] = "all_gate"
    /\ \E member \in GateAnswers :
         /\ out' = [out EXCEPT ![t] = Append(@,
                ApiCall("get_chat_member", ev[t].chat, "", <<>>, None, "none", member))]
         /\ pc' = [pc EXCEPT ![t] =
                IF member = "Err" THEN "err"
                ELSE IF ~is_admin(member) THEN "all_send_only_admins"
                ELSE "all_fetch_admins"]
    /\ UNCHANGED <<db, lock, ev, loc, oplog, nEvents, fn_in, fn_out, scope>>

\* main.rs:203-206
AllSendOnlyAdmins(t) ==
    /\ pc[t] = "all_send_only_admins"
    /\ SendMessage(t, OnlyAdminsText, <<>>, reply_parameters(ev[t]), "none")
    /\ UNCHANGED <<db, lock, ev, loc, oplog, nEvents, fn_in, fn_out, scope>>

\* A mutant of the fetch: the administrators are fetched and never stored.
AllFetchAdminsNoSync(t) ==
    /\ pc[t] = "all_fetch_admins"
    /\ \E res \in AdminAnswers :
         /\ out' = [out EXCEPT ![t] = Append(@,
                ApiCall("get_chat_administrators", ev[t].chat, "", <<>>, None, "none",
                        IF res = None THEN "Err" ELSE "Ok"))]
         /\ pc' = [pc EXCEPT ![t] = "all_read_lock"]
         /\ loc' = IF res = None THEN loc ELSE [loc EXCEPT ![t].admins = res[1]]
    /\ UNCHANGED <<db, lock, ev, oplog, nEvents, fn_in, fn_out, scope>>

\* main.rs:211: get_chat_administrators; on Err the sync block is skipped.
AllFetchAdmins(t) ==
    /\ pc[t] = "all_fetch_admins"
    /\ \E res \in AdminAnswers :
         /\ out' = [out EXCEPT ![t] = Append(@,
                ApiCall("get_chat_administrators", ev[t].chat, "", <<>>, None, "none",
                        IF res = None THEN "Err" ELSE "Ok"))]
         /\ IF res = None
            THEN /\ pc' = [pc EXCEPT ![t] = "all_read_lock"]
                 /\ loc' = loc
            ELSE /\ pc' = [pc EXCEPT ![t] = "all_sync_lock"]
                 /\ loc' = [loc EXCEPT ![t].admins = res[1]]
    /\ UNCHANGED <<db, lock, ev, oplog, nEvents, fn_in, fn_out, scope>>

\* main.rs:212
AllSyncLock(t) ==
    /\ pc[t] = "all_sync_lock"
    /\ Acquire(t)
    /\ pc' = [pc EXCEPT ![t] = "all_sync"]
    /\ loc' = [loc EXCEPT ![t].idx = 1]
    /\ oplog' = Append(oplog, OpEntry(t, "lock", 0, 0, <<>>, TRUE))
    /\ UNCHANGED <<db, ev, out, nEvents, fn_in, fn_out, scope>>

\* A mutant of the administrator sync: automated administrators are stored too.
AllSyncAdminWithBots(t) ==
    /\ pc[t] = "all_sync"
    /\ loc[t].idx <= Len(loc[t].admins)
    /\ LET user == loc[t].admins[loc[t].idx]
       IN \E ok \in BOOLEAN :
            /\ db' = IF ok
                     THEN upsert_user(db, ev[t].chat, user.id, user.first_name)
                     ELSE db
            /\ oplog' = Append(oplog,
                  OpEntry(t, "upsert", ev[t].chat, user.id, user.first_name, ok))
    /\ loc' = [loc EXCEPT ![t].idx = @ + 1]
    /\ UNCHANGED <<lock, pc, ev, out, nEvents, fn_in, fn_out, scope>>

\* main.rs:214-224, one iteration of the loop over the administrators.
AllSyncAdmin(t) ==
    /\ pc[t] = "all_sync"
    /\ loc[t].idx <= Len(loc[t].admins)
    /\ LET user == loc[t].admins[loc[t].idx]
       IN IF ~user.is_bot
          THEN \E ok \in BOOLEAN :
                 /\ db' = IF ok
                          THEN upsert_user(db, ev[t].chat, user.id, user.first_name)
                          ELSE db
                 /\ oplog' = Append(oplog,
                       OpEntry(t, "upsert", ev[t].chat, user.id, user.first_name, ok))
          ELSE UNCHANGED <<db, oplog>>
    /\ loc' = [loc EXCEPT ![t].idx = @ + 1]
    /\ UNCHANGED <<lock, pc, ev, out, nEvents, fn_in, fn_out, scope>>

\* main.rs:225-226: the loop is over and the guard goes out of scope.
AllSyncEnd(t) ==
    /\ pc[t] = "all_sync"
    /\ loc[t].idx > Len(loc[t].admins)
    /\ lock' = 0
    /\ pc' = [pc EXCEPT ![t] = "all_read_lock"]
    /\ oplog' = Append(oplog, OpEntry(t, "unlock", 0, 0, <<>>, TRUE))
    /\ UNCHANGED <<db, ev, loc, out, nEvents, fn_in, fn_out, scope>>

\* main.rs:230
AllReadLock(t) ==
    /\ pc[t] = "all_read_lock"
    /\ Acquire(t)
    /\ pc' = [pc EXCEPT ![t] = "all_read"]
    /\ oplog' = Append(oplog, OpEntry(t, "lock", 0, 0, <<>>, TRUE))
    /\ UNCHANGED <<db, ev, loc, out, nEvents, fn_in, fn_out, scope>>

\* A mutant of the roster read: the guard lives on past the block of the read.
AllReadKeepingLock(t) ==
    /\ pc[t] = "all_read"
    /\ \E ok \in BOOLEAN :
         \E users \in (IF ok THEN get_users_for_chat(db, ev[t].chat) ELSE {<<>>}) :
            /\ loc' = [loc EXCEPT ![t].users = users]
            /\ oplog' = Append(oplog, OpEntry(t, "list", ev[t].chat, 0, <<>>, ok))
            /\ pc' = [pc EXCEPT ![t] =
                   IF users = <<>> THEN "all_send_no_users" ELSE "all_send_mentions"]
    /\ UNCHANGED <<db, lock, ev, out, nEvents, fn_in, fn_out, scope>>

\* A mutant of the roster read: its error ends the command.
AllReadPropagating(t) ==
    /\ pc[t] = "all_read"
    /\ \E ok \in BOOLEAN :
         \E users \in (IF ok THEN get_users_for_chat(db, ev[t].chat) ELSE {<<>>}) :
            /\ loc' = [loc EXCEPT ![t].users = users]
            /\ oplog' = oplog \o
                 <<OpEntry(t, "list", ev[t].chat, 0, <<>>, ok),
                   OpEntry(t, "unlock", 0, 0, <<>>, TRUE)>>
            /\ pc' = [pc EXCEPT ![t] =
                   IF ~ok THEN "err"
                   ELSE IF users = <<>> THEN "all_send_no_users" ELSE "all_send_mentions"]
    /\ lock' = 0
    /\ UNCHANGED <<db, ev, out, nEvents, fn_in, fn_out, scope>>

\* main.rs:231-234: the roster read, unwrap_or_default on its error, and the
\* branch on an empty result.
AllRead(t) ==
    /\ pc[t] = "all_read"
    /\ \E ok \in BOOLEAN :
         \E users \in (IF ok THEN get_users_for_chat(db, ev[t].chat) ELSE {<<>>}) :
            /\ loc' = [loc EXCEPT ![t].users = users]
            /\ oplog' = oplog \o
                 <<OpEntry(t, "list", ev[t].chat, 0, <<>>, ok),
                   OpEntry(t, "unlock", 0, 0, <<>>, TRUE)>>
            /\ pc' = [pc EXCEPT ![t] =
                   IF users = <<>> THEN "all_send_no_users" ELSE "all_send_mentions"]
    /\ lock' = 0
    /\ UNCHANGED <<db, ev, out, nEvents, fn_in, fn_out, scope>>

\* main.rs:236-242
AllSendNoUsers(t) ==
    /\ pc[t] = "all_send_no_users"
    /\ SendMessage(t, NoUsersText, <<>>, reply_parameters(ev[t]), "none")
    /\ UNCHANGED <<db, lock, ev, loc, oplog, nEvents, fn_in, fn_out, scope>>

\* main.rs:257-282
AllSendMentions(t) ==
    /\ pc[t] = "all_send_mentions"
    /\ SendMessage(t, "", build_reply(loc[t].users, ev[t].text),
                   reply_parameters(ev[t]), "MarkdownV2")
    /\ UNCHANGED <<db, lock, ev, loc, oplog, nEvents, fn_in, fn_out, scope>>

\* ------------------------------------------------------------------ specification

\* The steps a dispatched task takes.
Step(t) ==
    \/ ChatMemberLockUpsert(t)
    \/ ChatMemberUpsert(t)
    \/ ChatMemberLockDelete(t)
    \/ ChatMemberDelete(t)
    \/ TrackLock(t)
    \/ TrackUpsert(t)
    \/ MessageLock(t)
    \/ MessageNewMember(t)
    \/ MessageLeft(t)
    \/ AllSendGroupsOnly(t)
    \/ AllGate(t)
    \/ AllSendOnlyAdmins(t)
    \/ AllFetchAdmins(t)
    \/ AllSyncLock(t)
    \/ AllSyncAdmin(t)
    \/ AllSyncEnd(t)
    \/ AllReadLock(t)
    \/ AllRead(t)
    \/ AllSendNoUsers(t)
    \/ AllSendMentions(t)
    \/ Return(t)

\* Updates handled one after the other: the next is dispatched when the
\* handler of the previous one has returned.
Next ==
    \/ chat_member_handler(1)
    \/ message_handler(1)
    \/ command_handler(1)
    \/ Step(1)

Spec == Init /\ [][Next]_vars

\* ------------------------------------------------------------------ concurrent dispatch

\* The dispatcher runs the handlers of several updates at once (main.rs:47-52),
\* each in its own task, all sharing the Mutex.  The updates are those of one
\* group, a person (under two names) and an automated account, and the
\* person's commands in a direct conversation.
\* Under scope "live" the updates are those that take every path to the lock:
\* the person's arrival and departure, a message of the person that also
\* reports a join and a leave, and the person's commands.
CoreChatMemberUpdates ==
    {e \in ChatMemberUpdates :
        /\ e.chat = 1 /\ e.user[1] \in {Person, Robot} /\ e.kind \in {"Member", "Left"}
        /\ scope = "live" => e.user[1] = Person}
CoreMessages ==
    {e \in Messages :
        /\ e.chat = 1
        /\ e.from \in {None, Some(Person), Some(Robot)}
        /\ e.new_members \in {<<>>, <<Renamed>>, <<Robot>>}
        /\ e.left \in {None, Some(Person)}
        /\ scope = "live" =>
             e.from = Some(Person) /\ e.new_members = <<Renamed>> /\ e.left = Some(Person)}
CoreCommands ==
    {e \in Commands : e.chat \in {1, 3} /\ e.from = Some(Person) /\ e.text = <<>>}

\* A task is spawned in the first free slot.
FirstFree(t) == \A s \in Tasks : s < t => pc[s] # "idle"

SpawnChatMember(t) == FirstFree(t) /\ ChatMemberStart(t, CoreChatMemberUpdates)

SpawnMessage(t) ==
    FirstFree(t) /\ CanBegin(t) /\ \E msg \in CoreMessages : StartMessage(t, msg)

SpawnCommand(t) ==
    FirstFree(t) /\ CanBegin(t) /\ \E msg \in CoreCommands : StartMessage(t, msg)

NextConc ==
    \E t \in Tasks :
        \/ SpawnChatMember(t)
        \/ SpawnMessage(t)
        \/ SpawnCommand(t)
        \/ Step(t)

InitConc == InitTasks /\ fn_in = <<>> /\ fn_out = None /\ scope = "core"

SpecConc == InitConc /\ [][NextConc]_vars

\* ------------------------------------------------------------------ text functions alone

\* Characters of the texts the text functions are applied to: every listed
\* markup character, the escape character, a letter and white space.
Alphabet == {special_chars[i] : i \in 1..Len(special_chars)} \cup {BSlash, "a", " "}

InitEscape ==
    InitTasks /\ fn_in \in SeqUpTo(Alphabet, MaxLen) /\ fn_out = None /\ scope = "full"

\* escape_markdown_v2 applied to the drawn text.
Escape ==
    /\ fn_out = None
    /\ fn_out' = Some(escape_markdown_v2(fn_in))
    /\ UNCHANGED <<db, lock, pc, ev, loc, out, oplog, nEvents, fn_in, scope>>

SpecEscape == InitEscape /\ [][Escape]_vars

\* Roster snapshots: at most MaxUsers records with distinct user ids, as a
\* read of the table keyed by (chat_id, user_id) returns them.
SnapshotIds == {7, 12}
SnapshotNames == {<<"a">>, <<"_", "b">>, <<BSlash>>}
Snapshots ==
    {q \in SeqUpTo([user_id : SnapshotIds, first_name : SnapshotNames], MaxUsers) :
        /\ q # <<>>
        /\ \A i, j \in 1..Len(q) : q[i].user_id = q[j].user_id => i = j}

PrefixAlphabet == {"a", "*", " ", BSlash, NL}

InitCompose ==
    /\ InitTasks
    /\ fn_in \in [users : Snapshots, text : SeqUpTo(PrefixAlphabet, MaxLen)]
    /\ fn_out = None
    /\ scope = "full"

\* main.rs:257-273 applied to the drawn roster and argument.
Compose ==
    /\ fn_out = None
    /\ fn_out' = Some(build_reply(fn_in.users, fn_in.text))
    /\ UNCHANGED <<db, lock, pc, ev, loc, out, oplog, nEvents, fn_in, scope>>

SpecCompose == InitCompose /\ [][Compose]_vars

\* ------------------------------------------------------------------ properties of the text functions

\* The reserved characters of the documented rule: the listed markup
\* characters and the escape character itself.
Reserved == {special_chars[i] : i \in 1..Len(special_chars)} \cup {BSlash}

\* The characters main.rs:287-289 lists.
Listed == {special_chars[i] : i \in 1..Len(special_chars)}

EscapesUpTo(text, i, R) == Cardinality({j \in 1..i : text[j] \in R})

\* outp is text with one escape character inserted right before every
\* character that R reserves, and nothing else inserted, removed or moved.
EscapedAs(text, outp, R) ==
    /\ Len(outp) = Len(text) + EscapesUpTo(text, Len(text), R)
    /\ \A i \in 1..Len(text) :
         LET p == i + EscapesUpTo(text, i, R)
         IN /\ outp[p] = text[i]
            /\ text[i] \in R => outp[p - 1] = BSlash

\* C9: for every input text the escaping function outputs the input
\* characters in order, every reserved character (the listed markup characters
\* and the escape character itself) preceded by exactly one inserted escape
\* character, every other character copied with nothing inserted before it.
C9_EscapeReserved == fn_out # None => EscapedAs(fn_in, fn_out[1], Reserved)

\* What the code does establish: the same, for the listed characters only.
EscapeListedOnly == fn_out # None => EscapedAs(fn_in, fn_out[1], Listed)

RECURSIVE Escaped(_, _)
Escaped(text, R) ==
    IF text = <<>> THEN <<>>
    ELSE (IF text[1] \in R THEN <<BSlash, text[1]>> ELSE <<text[1]>>)
             \o Escaped(Tail(text), R)

Blank(text) == \A i \in 1..Len(text) : IsWhitespace(text[i])

Trimmed(text) ==
    IF Blank(text) THEN <<>>
    ELSE LET solid == {i \in 1..Len(text) : ~IsWhitespace(text[i])}
             first == CHOOSE i \in solid : \A j \in solid : i <= j
             last == CHOOSE i \in solid : \A j \in solid : j <= i
         IN SubSeq(text, first, last)

Reference(u, R) ==
    <<"[">> \o Escaped(u.first_name, R) \o LinkOpen \o i64_to_string(u.user_id) \o <<")">>

RECURSIVE References(_, _)
\* One reference per record, in order, a single space between neighbours.
References(users, R) ==
    IF Len(users) = 1 THEN Reference(users[1], R)
    ELSE References(SubSeq(users, 1, Len(users) - 1), R) \o <<" ">>
             \o Reference(users[Len(users)], R)

ExpectedBody(users, text, R) ==
    LET wrapped == Spoiler \o References(users, R) \o Spoiler
    IN IF Blank(text) THEN wrapped
       ELSE Escaped(Trimmed(text), R) \o <<NL>> \o wrapped

\* C10: for every non-empty roster snapshot and prefix the composed body holds
\* one reference per record, in the order given, separated by single spaces
\* and wrapped in spoiler delimiters; with an empty or blank prefix it is the
\* wrapped references alone, otherwise the escaped trimmed prefix, one line
\* break, then the wrapped references.  Escaping is that of the documented
\* reserved-character rule.
C10_ComposedBody ==
    fn_out # None => fn_out[1] = ExpectedBody(fn_in.users, fn_in.text, Reserved)

\* What the code does establish: the same layout, escaping the listed
\* characters only.
ComposedBodyListedOnly ==
    fn_out # None => fn_out[1] = ExpectedBody(fn_in.users, fn_in.text, Listed)

\* ------------------------------------------------------------------ properties of the handlers

Calls(t, name) == SelectSeq(out[t], LAMBDA c : c.call = name)
Sends(t) == Calls(t, "send_message")
Ops(t) == SelectSeq(oplog, LAMBDA o : o.task = t)
Mutations(t) == SelectSeq(oplog, LAMBDA o : o.task = t /\ o.op \in {"upsert", "delete"})
Reads(t) == SelectSeq(oplog, LAMBDA o : o.task = t /\ o.op = "list")
AllOk(t) == \A i \in 1..Len(oplog) : oplog[i].task = t => oplog[i].ok
Ended(t) == pc[t] \in {"done", "err"}
Range(q) == {q[i] : i \in 1..Len(q)}

GroupKinds == {"group", "supergroup"}
CommandIn(t, kinds) == ev[t].type = "command" /\ ChatKind(ev[t].chat) \in kinds

\* The gate query of t has returned one of these roles.
GateAnswered(t, roles) == \E c \in Range(Calls(t, "get_chat_member")) : c.result \in roles

AsUser(u) == [user_id |-> u.id, first_name |-> u.first_name]

\* C1: a broadcast command in a group-type conversation whose gate query
\* returns a role other than administrator or owner sends exactly one "only
\* admins" rejection; it never fetches the administrator list, never reads the
\* roster, sends no mention message, and its only store mutation is the
\* upsert of the invoker.
C1_NonAdminRejected ==
    \A t \in Tasks :
        (CommandIn(t, GroupKinds)
           /\ GateAnswered(t, {"Member", "Restricted", "Left", "Banned"}))
        => /\ Calls(t, "get_chat_administrators") = <<>>
           /\ Reads(t) = <<>>
           /\ \A c \in Range(Sends(t)) :
                c.text = OnlyAdminsText /\ c.body = <<>> /\ c.parse_mode = "none"
           /\ Len(Sends(t)) <= 1
           /\ Ended(t) => Len(Sends(t)) = 1
           /\ Len(Mutations(t)) <= 1
           /\ \A m \in Range(Mutations(t)) :
                /\ m.op = "upsert"
                /\ m.chat_id = ev[t].chat
                /\ m.user_id = ev[t].from[1].id
                /\ m.first_name = ev[t].from[1].first_name
           /\ Ended(t) =>
                db \in {loc[t].db0,
                        upsert_user(loc[t].db0, ev[t].chat, ev[t].from[1].id,
                                    ev[t].from[1].first_name)}

\* A rejected non-admin command that has returned, its invoker tracked.
C1_Witness ==
    \E t \in Tasks :
        /\ CommandIn(t, GroupKinds)
        /\ GateAnswered(t, {"Member"})
        /\ pc[t] = "done"
        /\ Len(Sends(t)) = 1
        /\ Len(Mutations(t)) = 1
        /\ db # loc[t].db0

\* C2: a broadcast command in a conversation that is not of group type sends
\* exactly one "only works in groups" rejection; it never takes the store
\* lock, performs no store operation and never queries the gate.
C2_DirectRejected ==
    \A t \in Tasks :
        CommandIn(t, {"private", "channel"})
        => /\ Ops(t) = <<>>
           /\ lock # t
           /\ \A c \in Range(out[t]) :
                c.call = "send_message" /\ c.text = GroupsOnlyText /\ c.body = <<>>
           /\ Len(out[t]) <= 1
           /\ Ended(t) => Len(out[t]) = 1
           /\ db = loc[t].db0

\* A command sent by a person in a direct conversation, rejected and returned.
C2_Witness ==
    \E t \in Tasks :
        /\ CommandIn(t, {"private"})
        /\ ev[t].from # None
        /\ ~ev[t].from[1].is_bot
        /\ pc[t] = "done"
        /\ Len(Sends(t)) = 1

\* The command of t came from a privileged participant to a group whose roster
\* was empty on arrival, and the administrator fetch gave no administrators.
PrivilegedOnEmptyRoster(t) ==
    /\ CommandIn(t, GroupKinds)
    /\ GateAnswered(t, {"Administrator", "Owner"})
    /\ UsersOf(loc[t].db0, ev[t].chat) = {}
    /\ Calls(t, "get_chat_administrators") # <<>>
    /\ loc[t].admins = <<>>
    /\ Ended(t)

\* C3 as stated: a broadcast command by a privileged participant in a group
\* with zero tracked users on arrival and no fetchable admins results in
\* exactly one "no users tracked yet" reply and no mention message.
C3_NoUsersReply ==
    \A t \in Tasks :
        PrivilegedOnEmptyRoster(t)
        => Len(Sends(t)) = 1 /\ Sends(t)[1].text = NoUsersText

\* C3 as amended: such a command sends exactly one reply; it is the "no users
\* tracked yet" notice exactly when the invoker is an automated account or a
\* store operation of the command failed; otherwise the roster read returns
\* the invoker's record, tracked on arrival, and the reply is the mention
\* message for the invoker.
C3_NoUsersOnlyIfInvokerUntracked ==
    \A t \in Tasks :
        PrivilegedOnEmptyRoster(t)
        => /\ Len(Sends(t)) = 1
           /\ LET invoker == ev[t].from[1]
                  reply == Sends(t)[1]
              IN IF invoker.is_bot \/ ~AllOk(t)
                 THEN reply.text = NoUsersText /\ reply.body = <<>>
                 ELSE /\ loc[t].users = <<AsUser(invoker)>>
                      /\ reply.text = ""
                      /\ reply.parse_mode = "MarkdownV2"
                      /\ reply.body = build_reply(<<AsUser(invoker)>>, ev[t].text)

\* A privileged person's command on an empty roster that mentioned its invoker.
C3_Witness ==
    \E t \in Tasks :
        /\ PrivilegedOnEmptyRoster(t)
        /\ pc[t] = "done"
        /\ ~ev[t].from[1].is_bot
        /\ Sends(t)[1].parse_mode = "MarkdownV2"

\* C4 as stated: every message the broadcast command sends, on any of its
\* exits, carries a reply reference to the message that triggered the command.
C4_EverySendReplies ==
    \A t \in Tasks :
        ev[t].type = "command"
        => \A c \in Range(Sends(t)) : c.reply_to = Some(ev[t].msg_id)

\* C4 as amended: the not-authorized rejection, the empty-roster notice and
\* the mention message carry a reply reference to the triggering message; the
\* wrong-conversation-type rejection is sent without one.
C4_RepliesExceptGroupsOnly ==
    \A t \in Tasks :
        ev[t].type = "command"
        => \A c \in Range(Sends(t)) :
             /\ c.text \in {GroupsOnlyText, OnlyAdminsText, NoUsersText, ""}
             /\ c.text = GroupsOnlyText => c.reply_to = None
             /\ c.text # GroupsOnlyText => c.reply_to = Some(ev[t].msg_id)

\* A mention message sent for the second update, as a reply to it.
C4_Witness ==
    \E t \in Tasks :
        /\ ev[t].type = "command"
        /\ ev[t].msg_id = 2
        /\ Len(Sends(t)) = 1
        /\ Sends(t)[1].parse_mode = "MarkdownV2"
        /\ Sends(t)[1].reply_to = Some(2)

PresentKinds == {"Member", "Administrator", "Owner", "Restricted"}
DepartedKinds == {"Left", "Banned"}

RowsOf(rows, c, u) == {r \in rows : r.chat_id = c /\ r.user_id = u}

\* The membership-status event of t, with a role among kinds, is processed.
MemberEventDone(t, kinds) ==
    /\ ev[t].type = "chat_member"
    /\ ev[t].kind \in kinds
    /\ pc[t] = "done"

\* C5: once a membership-status event with new role member, administrator,
\* owner or restricted for a non-automated participant P in group G is
\* processed, its store operation succeeding and no later event for the key,
\* list(G) holds exactly one record for P, with the display name the event
\* carried.
C5_PresentTracked ==
    \A t \in Tasks :
        (MemberEventDone(t, PresentKinds) /\ ~ev[t].user[1].is_bot /\ AllOk(t))
        => /\ Cardinality(RowsOf(db, ev[t].chat, ev[t].user[1].id)) = 1
           /\ AsUser(ev[t].user[1]) \in UsersOf(db, ev[t].chat)

\* A restricted member, known under another name, seen again and renamed.
C5_Witness ==
    \E t \in Tasks :
        /\ MemberEventDone(t, {"Restricted"})
        /\ ~ev[t].user[1].is_bot
        /\ AllOk(t)
        /\ \E r \in RowsOf(loc[t].db0, ev[t].chat, ev[t].user[1].id) :
               r.first_name # ev[t].user[1].first_name

\* C6 as stated: once a membership-status event with a departed role for P in
\* G is processed, list(G) does not contain P, whether or not P was present
\* before and whether or not P is automated.
C6_DepartedAbsent ==
    \A t \in Tasks :
        MemberEventDone(t, DepartedKinds)
        => RowsOf(db, ev[t].chat, ev[t].user[1].id) = {}

\* C6 as amended: once such an event is processed and its delete succeeded,
\* list(G) does not contain P; in every case the records of all other keys
\* are unchanged, and when P was already absent (as after an earlier
\* departure event) P stays absent and the whole roster is unchanged.
C6_DepartedAbsentWhenDeleted ==
    \A t \in Tasks :
        MemberEventDone(t, DepartedKinds)
        => LET c == ev[t].chat
               u == ev[t].user[1].id
           IN /\ AllOk(t) => RowsOf(db, c, u) = {}
              /\ db \ RowsOf(db, c, u) = loc[t].db0 \ RowsOf(loc[t].db0, c, u)
              /\ RowsOf(loc[t].db0, c, u) = {} => db = loc[t].db0

\* The departure of the one tracked participant, processed with the delete
\* succeeding: the table is empty again.
C6_Witness ==
    \E t \in Tasks :
        /\ MemberEventDone(t, DepartedKinds)
        /\ AllOk(t)
        /\ RowsOf(loc[t].db0, ev[t].chat, ev[t].user[1].id) # {}
        /\ db = {}

\* C7: in every reachable state no roster record belongs to an automated
\* account.
C7_NoAutomatedRecords == \A r \in db : r.user_id \notin BotIds

\* An administrator sync that met an automated administrator and went past it.
C7_Witness ==
    \E t \in Tasks :
        /\ pc[t] = "all_sync"
        /\ loc[t].idx > Len(loc[t].admins)
        /\ \E i \in 1..Len(loc[t].admins) : loc[t].admins[i].is_bot

\* C8: in every reachable state no roster record exists for a conversation
\* that is not of group or supergroup type.
C8_OnlyGroupRecords == \A r \in db : ChatKind(r.chat_id) \in GroupKinds

\* ------------------------------------------------------------------ the store alone

\* The store driven by any sequence of upserts and deletes, starting from the
\* empty table of init_db.  fn_in records the last call and the table it met,
\* fn_out its Result and the table a second, identical call would leave.
StoreChats == {1, 2}
StoreUsers == {1, 2}
StoreNames == {<<"a">>, <<"_", "b">>}

\* db.rs:29-37 and 56-61: conn.execute(..)? followed by Ok(()).  The call fails
\* exactly when SQLite reports an error; the number of rows affected is dropped.
execute_result(affected, fault) == IF fault THEN "Err" ELSE "Ok"

StoreCall(op, c, u, n, fault) ==
    [op |-> op, chat_id |-> c, user_id |-> u, first_name |-> n, before |-> db,
     fault |-> fault]

StoreUpsert ==
    \E c \in StoreChats, u \in StoreUsers, n \in StoreNames, fault \in BOOLEAN :
        LET after == IF fault THEN db ELSE upsert_user(db, c, u, n)
        IN /\ fn_in' = StoreCall("upsert", c, u, n, fault)
           /\ db' = after
           /\ fn_out' = Some([result |-> execute_result(1, fault),
                              twice |-> IF fault THEN after
                                        ELSE upsert_user(after, c, u, n)])
           /\ UNCHANGED <<lock, pc, ev, loc, out, oplog, nEvents, scope>>

StoreDelete ==
    \E c \in StoreChats, u \in StoreUsers, fault \in BOOLEAN :
        LET after == IF fault THEN db ELSE delete_user(db, c, u)
            affected == Cardinality(db) - Cardinality(delete_user(db, c, u))
        IN /\ fn_in' = StoreCall("delete", c, u, <<>>, fault)
           /\ db' = after
           /\ fn_out' = Some([result |-> execute_result(affected, fault),
                              twice |-> IF fault THEN after
                                        ELSE delete_user(after, c, u)])
           /\ UNCHANGED <<lock, pc, ev, loc, out, oplog, nEvents, scope>>

InitStore == InitTasks /\ fn_in = <<>> /\ fn_out = None /\ scope = "full"

NextStore == StoreUpsert \/ StoreDelete

SpecStore == InitStore /\ [][NextStore]_vars

\* The last store call was op, and SQLite reported no error.
Called(op) == fn_out # None /\ fn_in.op = op /\ ~fn_in.fault

OtherRows(rows, c, u) == rows \ RowsOf(rows, c, u)

\* C11: the store holds at most one record per (chat_id, user_id) in every
\* reachable state; an upsert on an absent key inserts it, an upsert on a
\* present key changes only that record's first_name, the same upsert applied
\* twice leaves what it leaves applied once, and a delete of an absent key
\* succeeds and leaves the store unchanged.
C11_StoreContract ==
    /\ \A c \in StoreChats, u \in StoreUsers : Cardinality(RowsOf(db, c, u)) <= 1
    /\ Called("upsert") =>
         LET c == fn_in.chat_id
             u == fn_in.user_id
         IN /\ fn_out[1].result = "Ok"
            /\ RowsOf(db, c, u) = {Row(c, u, fn_in.first_name)}
            /\ OtherRows(db, c, u) = OtherRows(fn_in.before, c, u)
            /\ RowsOf(fn_in.before, c, u) = {} =>
                 db = fn_in.before \cup {Row(c, u, fn_in.first_name)}
            /\ RowsOf(fn_in.before, c, u) # {} =>
                 Cardinality(db) = Cardinality(fn_in.before)
            /\ fn_out[1].twice = db
    /\ Called("delete") =>
         LET c == fn_in.chat_id
             u == fn_in.user_id
         IN /\ RowsOf(db, c, u) = {}
            /\ OtherRows(db, c, u) = OtherRows(fn_in.before, c, u)
            /\ RowsOf(fn_in.before, c, u) = {} =>
                 fn_out[1].result = "Ok" /\ db = fn_in.before

\* A record renamed by an upsert while another key of the same chat is stored.
C11_Witness ==
    /\ Called("upsert")
    /\ \E r \in RowsOf(fn_in.before, fn_in.chat_id, fn_in.user_id) :
           r.first_name # fn_in.first_name
    /\ Cardinality(db) >= 2

\* ------------------------------------------------------------------ failures and ordering

\* What one store operation of the log leaves of a table: nothing changes when
\* it failed or only read.
ApplyOp(rows, o) ==
    IF ~o.ok THEN rows
    ELSE IF o.op = "upsert"
         THEN OtherRows(rows, o.chat_id, o.user_id)
                  \cup {Row(o.chat_id, o.user_id, o.first_name)}
    ELSE IF o.op = "delete" THEN OtherRows(rows, o.chat_id, o.user_id)
    ELSE rows

RECURSIVE Replay(_, _)
\* The table left by the operations of ops applied to rows one after the other.
Replay(rows, ops) ==
    IF ops = <<>> THEN rows ELSE Replay(ApplyOp(rows, Head(ops)), Tail(ops))

Request(op, c, u, n) == <<op, c, u, n>>

\* The mutations of t as issued, whatever their outcome.
Issued(t) ==
    [i \in 1..Len(Mutations(t)) |->
        LET m == Mutations(t)[i] IN Request(m.op, m.chat_id, m.user_id, m.first_name)]

Humans(users) == SelectSeq(users, LAMBDA u : ~u.is_bot)

\* The mutations the tracking rules ask for on event e, in order: the
\* membership-status rule, and for a group message the author, the added
\* participants, the removed participant.
ExpectedRequests(e) ==
    IF e.type = "chat_member"
    THEN IF e.kind \in PresentKinds
         THEN [i \in 1..Len(Humans(e.user)) |->
                  Request("upsert", e.chat, e.user[1].id, e.user[1].first_name)]
         ELSE <<Request("delete", e.chat, e.user[1].id, <<>>)>>
    ELSE IF ChatKind(e.chat) \notin GroupKinds THEN <<>>
    ELSE [i \in 1..Len(Humans(e.from)) |->
             Request("upsert", e.chat, e.from[1].id, e.from[1].first_name)]
         \o [i \in 1..Len(Humans(e.new_members)) |->
                Request("upsert", e.chat, Humans(e.new_members)[i].id,
                        Humans(e.new_members)[i].first_name)]
         \o [i \in 1..Len(e.left) |-> Request("delete", e.chat, e.left[1].id, <<>>)]

Passive(t) == ev[t].type \in {"chat_member", "message"}

\* C12: when a store upsert or delete fails during passive tracking, the
\* roster is left unchanged by that operation, the handler still issues the
\* operations of the remaining sub-events and completes with success, and no
\* outbound call is made.
C12_PassiveFailuresSilent ==
    \A t \in Tasks :
        Passive(t)
        => /\ out[t] = <<>>
           /\ pc[t] # "err"
           /\ db = Replay(loc[t].db0, Mutations(t))
           /\ pc[t] = "done" => Issued(t) = ExpectedRequests(ev[t])

\* A group message whose author upsert failed, then the upsert of the added
\* participant succeeded and the delete of the removed one failed.
C12_Witness ==
    \E t \in Tasks :
        /\ ev[t].type = "message"
        /\ pc[t] = "done"
        /\ Len(Mutations(t)) = 3
        /\ ~Mutations(t)[1].ok
        /\ Mutations(t)[2].ok
        /\ ~Mutations(t)[3].ok
        /\ db # loc[t].db0

\* The roster read of t's command has failed.
ReadFailed(t) == ev[t].type = "command" /\ \E r \in Range(Reads(t)) : ~r.ok

\* C13: when the roster read of the broadcast command fails with a store
\* error the command does not abort: it takes the roster as empty and issues
\* exactly one "no users tracked yet" notice and no mention message; it ends
\* with an error only if that send itself fails.
C13_ReadFailureMeansEmpty ==
    \A t \in Tasks :
        ReadFailed(t)
        => /\ loc[t].users = <<>>
           /\ pc[t] \in {"all_send_no_users", "done", "err"}
           /\ pc[t] = "all_send_no_users" <=> Sends(t) = <<>>
           /\ Len(Sends(t)) <= 1
           /\ \A c \in Range(Sends(t)) :
                /\ c.text = NoUsersText /\ c.body = <<>> /\ c.parse_mode = "none"
                /\ pc[t] = "err" <=> c.result = "Err"

\* A failed read of a roster that holds records, answered by the notice.
C13_Witness ==
    \E t \in Tasks :
        /\ ReadFailed(t)
        /\ UsersOf(db, ev[t].chat) # {}
        /\ pc[t] = "done"
        /\ Len(Sends(t)) = 1

\* C14: when the gate query fails the broadcast command ends with an error,
\* having sent no message, fetched no administrator list, and read no roster;
\* its only store operation is the upsert of the invoker made before the
\* gate, and the roster is what that upsert left.
C14_GateErrorAborts ==
    \A t \in Tasks :
        (ev[t].type = "command" /\ GateAnswered(t, {"Err"}))
        => /\ pc[t] = "err"
           /\ Len(out[t]) = 1
           /\ Sends(t) = <<>>
           /\ Calls(t, "get_chat_administrators") = <<>>
           /\ Reads(t) = <<>>
           /\ lock # t
           /\ Issued(t) =
                [i \in 1..Len(Humans(ev[t].from)) |->
                    Request("upsert", ev[t].chat, ev[t].from[1].id,
                            ev[t].from[1].first_name)]
           /\ db = Replay(loc[t].db0, Mutations(t))

\* A command whose invoker was recorded and whose gate query then failed.
C14_Witness ==
    \E t \in Tasks :
        /\ ev[t].type = "command"
        /\ GateAnswered(t, {"Err"})
        /\ Len(Mutations(t)) = 1
        /\ db # loc[t].db0

\* The message event of t, a group message naming a removed participant, is
\* processed.
RemovalDone(t) ==
    /\ ev[t].type = "message"
    /\ ChatKind(ev[t].chat) \in GroupKinds
    /\ ev[t].left # None
    /\ pc[t] = "done"

\* C20 as stated: the store operations of one group message are issued in the
\* order author, added participants, removed participant; consequently the
\* removed participant of a message is absent from the roster once the
\* message is processed, even when also its author or among its added.
C20_RemovedAbsent ==
    \A t \in Tasks :
        RemovalDone(t)
        => /\ Issued(t) = ExpectedRequests(ev[t])
           /\ RowsOf(db, ev[t].chat, ev[t].left[1].id) = {}

\* C20 as amended: the operations are issued in that order, the delete last;
\* the removed participant is absent once the message is processed provided
\* the delete succeeded, even when also its author or among its added; when
\* the delete failed the record is what the earlier operations left.
C20_RemovedAbsentWhenDeleted ==
    \A t \in Tasks :
        RemovalDone(t)
        => LET ops == Mutations(t)
               last == ops[Len(ops)]
               c == ev[t].chat
               u == ev[t].left[1].id
           IN /\ Issued(t) = ExpectedRequests(ev[t])
              /\ last.op = "delete" /\ last.user_id = u
              /\ \A i \in 1..(Len(ops) - 1) : ops[i].op = "upsert"
              /\ last.ok => RowsOf(db, c, u) = {}
              /\ ~last.ok =>
                   db = Replay(loc[t].db0, SubSeq(ops, 1, Len(ops) - 1))

\* A message whose author, added participant and removed participant are the
\* same person: recorded twice, then deleted.
C20_Witness ==
    \E t \in Tasks :
        /\ RemovalDone(t)
        /\ AllOk(t)
        /\ Len(Mutations(t)) = 3
        /\ \A i \in 1..3 : Mutations(t)[i].user_id = ev[t].left[1].id
        /\ RowsOf(db, ev[t].chat, ev[t].left[1].id) = {}

\* ------------------------------------------------------------------ the lock

StoreOps == {"upsert", "delete", "list"}

\* By the log, t has taken the lock and not released it since.
HeldBy(t) ==
    LET mine == SelectSeq(oplog, LAMBDA o : o.task = t /\ o.op \in {"lock", "unlock"})
    IN mine # <<>> /\ mine[Len(mine)].op = "lock"

\* Entry i of the log, a store operation, lies in a stretch of the log that
\* starts with its task taking the lock and holds entries of that task only,
\* none of them a release.
UnderLock(i) ==
    \E j \in 1..(i - 1) :
        /\ oplog[j].task = oplog[i].task
        /\ oplog[j].op = "lock"
        /\ \A k \in (j + 1)..i :
             oplog[k].task = oplog[i].task /\ oplog[k].op # "unlock"

\* Places where a task waits for the lock.
LockWaits ==
    {"cm_lock_upsert", "cm_lock_delete", "tr_lock", "mh_lock", "all_sync_lock",
     "all_read_lock"}

\* C15: at most one task holds the store lock at any time and every store
\* operation is executed by the task holding it; the upserts of one
\* administrator sync lie in one such stretch, so no store operation of
\* another task comes between two of them.
C15_LockDiscipline ==
    /\ Cardinality({t \in Tasks : HeldBy(t)}) <= 1
    /\ \A t \in Tasks : HeldBy(t) <=> lock = t
    /\ \A i \in 1..Len(oplog) : oplog[i].op \in StoreOps => UnderLock(i)
    /\ \A t \in Tasks :
         pc[t] = "all_sync" =>
            /\ HeldBy(t)
            /\ \A i \in 1..Len(oplog) :
                 (oplog[i].task = t /\ oplog[i].op = "lock"
                    /\ \A k \in (i + 1)..Len(oplog) :
                         ~(oplog[k].task = t /\ oplog[k].op = "lock"))
                 => \A k \in (i + 1)..Len(oplog) :
                      oplog[k].task = t /\ oplog[k].op = "upsert"

\* A sync that has upserted two administrators while another task waits for
\* the lock.
C15_Witness ==
    \E t, s \in Tasks :
        /\ pc[t] = "all_sync"
        /\ Len(oplog) >= 2
        /\ oplog[Len(oplog)].task = t /\ oplog[Len(oplog)].op = "upsert"
        /\ oplog[Len(oplog) - 1].task = t /\ oplog[Len(oplog) - 1].op = "upsert"
        /\ s # t
        /\ pc[s] \in LockWaits

\* Places where a task is suspended on a call to the remote service.
RemoteWaits ==
    {"all_gate", "all_fetch_admins", "all_send_groups_only", "all_send_only_admins",
     "all_send_no_users", "all_send_mentions"}

\* C19: in every reachable state in which a task is suspended on a remote
\* call (gate query, administrator fetch, outbound send) that task does not
\* hold the store lock.
C19_NoLockAcrossRemoteCall ==
    \A t \in Tasks : pc[t] \in RemoteWaits => lock # t /\ ~HeldBy(t)

\* A command about to send its mention message while another task, holding
\* the lock, has just run a store operation.
C19_Witness ==
    \E t, s \in Tasks :
        /\ pc[t] = "all_send_mentions"
        /\ s # t
        /\ lock = s
        /\ oplog # <<>>
        /\ oplog[Len(oplog)].task = s
        /\ oplog[Len(oplog)].op \in StoreOps

\* ------------------------------------------------------------------ concurrent writers

\* No task has returned yet: the log holds every operation since init_db.
NoneReturned == Cardinality({t \in Tasks : pc[t] # "idle"}) = nEvents

AllEnded == \A t \in Tasks : pc[t] # "idle" => Ended(t)

\* The mutations of all tasks, in the order they ran under the lock.
StoreLog == SelectSeq(oplog, LAMBDA o : o.op \in {"upsert", "delete"})

\* Those on key (c, u) that wrote, a failed operation writing nothing.
Writers(c, u) ==
    SelectSeq(StoreLog, LAMBDA o : o.chat_id = c /\ o.user_id = u /\ o.ok)

UserIds == {x.id : x \in UserObjs}

\* C16: for events processed concurrently, the table is at every moment what
\* the individual store operations leave when applied one after the other in
\* the order they took the lock; once all events have completed, the presence
\* and first_name of each key are exactly those left by the last operation
\* that wrote it, with no mix of two writers.
C16_LastWriterWins ==
    NoneReturned
    => /\ db = Replay(init_db, StoreLog)
       /\ AllEnded =>
            \A c \in ChatIds, u \in UserIds :
                LET wrote == Writers(c, u)
                    last == wrote[Len(wrote)]
                IN /\ wrote = <<>> => RowsOf(db, c, u) = {}
                   /\ (wrote # <<>> /\ last.op = "upsert")
                        => RowsOf(db, c, u) = {Row(c, u, last.first_name)}
                   /\ (wrote # <<>> /\ last.op = "delete") => RowsOf(db, c, u) = {}

\* Two events for the same key, both completed, the one dispatched second
\* having written first: the name stored is that of the first event.
C16_Witness ==
    /\ NoneReturned
    /\ AllEnded
    /\ \E c \in ChatIds, u \in UserIds :
         LET wrote == Writers(c, u)
         IN /\ Len(wrote) = 2
            /\ wrote[1].task = 2 /\ wrote[1].op = "upsert"
            /\ wrote[2].task = 1 /\ wrote[2].op = "upsert"
            /\ wrote[1].first_name # wrote[2].first_name
            /\ RowsOf(db, c, u) = {Row(c, u, wrote[2].first_name)}

\* The command of t fetched the administrators and has read the roster.
SyncRead(t) ==
    /\ ev[t].type = "command"
    /\ \E c \in Range(Calls(t, "get_chat_administrators")) : c.result = "Ok"
    /\ Reads(t) # <<>>

\* The administrators the fetch of t returned that are not automated.
HumanAdmins(t) == Range(Humans(loc[t].admins))

Tracked(t) == {u.user_id : u \in Range(loc[t].users)}

\* Where the roster read of t stands in the log.
ReadAt(t) == CHOOSE i \in 1..Len(oplog) : oplog[i].task = t /\ oplog[i].op = "list"

\* t upserted a at entry i of the log, the upsert and the later read both
\* succeeded, and no delete of a's record ran in between.
KeptUntilRead(t, a, i) ==
    /\ oplog[i].ok
    /\ oplog[ReadAt(t)].ok
    /\ \A k \in i..ReadAt(t) :
         ~(/\ oplog[k].op = "delete"
           /\ oplog[k].chat_id = ev[t].chat
           /\ oplog[k].user_id = a.id
           /\ oplog[k].ok)

Fairness == \A t \in Tasks : WF_vars(Step(t))

InitLive == InitTasks /\ fn_in = <<>> /\ fn_out = None /\ scope = "live"

SpecLive == InitLive /\ [][NextConc]_vars /\ Fairness

Running(t) == pc[t] \notin {"idle", "done", "err"}

\* No task waits for the lock it holds.
NoSelfWait == \A t \in Tasks : pc[t] \in LockWaits => lock # t

\* A task that has finished holds no lock.
ReleasedAtEnd == \A t \in Tasks : ~Running(t) => lock # t /\ ~HeldBy(t)

\* While a handler is running, some running handler can take a step.
NoDeadlock ==
    (\E t \in Tasks : Running(t)) => \E t \in Tasks : Running(t) /\ ENABLED Step(t)

\* C18: no task ever waits for the store lock while holding it, every task
\* has released the lock when it finishes, no deadlock is reachable, and
\* under fair scheduling with remote calls that return every dispatched
\* handler eventually terminates.
C18_HandlersTerminate ==
    /\ [](NoSelfWait /\ ReleasedAtEnd /\ NoDeadlock)
    /\ \A t \in Tasks : (pc[t] # "idle") ~> Ended(t)

\* A message handler that has finished after taking the lock twice, for the
\* author and for the join/leave block, an operation of the other task having
\* run in between.
C18_Witness ==
    \E t, s \in Tasks :
        /\ ev[t].type = "message"
        /\ pc[t] = "done"
        /\ s # t
        /\ \E i, j, k \in 1..Len(oplog) :
             /\ i < j /\ j < k
             /\ oplog[i].task = t /\ oplog[i].op = "unlock"
             /\ oplog[j].task = s /\ oplog[j].op \in StoreOps
             /\ oplog[k].task = t /\ oplog[k].op = "lock"

====
